---------------------------- MODULE Spec2Model ----------------------------
(***************************************************************************)
(* A model of the order lifecycle of the farm storefront API: the orders   *)
(* service (src/api/orders/service.py), the manual stock adjustment of the *)
(* products service (src/api/products/service.py) and the PayPal payment   *)
(* service (src/api/payments/service.py) with its provider.                *)
(*                                                                         *)
(* Units.  Quantities and stock are counted in hundredths of a unit and    *)
(* stored money in hundredths of the currency: both columns are            *)
(* Numeric(12, 2).  A product quantity * unit_price is a Decimal with four *)
(* fractional digits; inside a request such values are kept exactly, in    *)
(* ten-thousandths ("ticks"), and the database rounds them to the column   *)
(* scale when the row is written.  Requests carry values at column scale.  *)
(***************************************************************************)
EXTENDS Integers, Sequences, FiniteSets, TLC

VARIABLES
    stock,          \* product.stock_quantity of every product row
    orders,         \* the orders table with each row's order_item rows
    nextOrder,      \* the next order id (ids are never handed out twice)
    payments,       \* the provider's payments: payment id -> [custom, state]
    shipments,      \* the shipment table: shipment id -> row
    nextShipment,   \* the next shipment id
    now,            \* the clock that datetime.now reads
    carts,          \* the cart table: cart id -> row
    cartItems,      \* the cart_item table: cart item id -> row
    nextCart,       \* the next cart id
    nextCartItem,   \* the next cart item id
    resp,           \* the response to the last request handled
    stockAtCreate,  \* history: the last order created and the stock its
                    \* creation found, while no other request changed stock
    txns            \* the create_order requests between their reads of the
                    \* products and their commit: request -> session

vars ==
    <<stock, orders, nextOrder, payments, shipments, nextShipment, now, carts,
      cartItems, nextCart, nextCartItem, resp, stockAtCreate, txns>>

----------------------------------------------------------------------------
(* Bounds of the model *)

MaxOrders == 2
MaxLines == 2
MaxQty == 2
InitStock == 2
MaxStock == 3
MaxPayments == 2
MaxShipments == 3
MaxTime == 3
MaxCarts == 2
MaxCartItems == 3
MaxTxns == 2

(* Program constants *)

Scale == 100

----------------------------------------------------------------------------
(* The data *)

Products == {"p1", "p2"}
NoSuchProduct == "p0"

\* A product row with is_active = False.
InactiveProduct == "p3"

\* product.price_per_unit, in hundredths.
price_per_unit == [p \in Products |-> IF p = "p1" THEN 250 ELSE 100]
ProductIds == Products \cup {NoSuchProduct}
OrderIds == 1 .. MaxOrders
PaymentIds == 1 .. MaxPayments

OrderStatus == {"DRAFT", "PENDING_PAYMENT", "PAID", "CANCELLED", "FULFILLED"}
PaymentStatus ==
    {"NOT_REQUIRED", "PENDING", "AUTHORIZED", "CAPTURED", "FAILED", "REFUNDED"}

None == "None"

\* order.payment_reference: none, a provider payment id or a provider
\* transaction (sale) id.
NoReference == [kind |-> "none", n |-> 0]
PaymentRef(k) == [kind |-> "payment", n |-> k]
SaleRef(k) == [kind |-> "sale", n |-> k]

\* What the database stores in a Numeric(12, 2) column for an exact value
\* given in ticks: the value rounded to two places, ties away from zero.
NumericRound(x) ==
    IF x >= 0 THEN (x + Scale \div 2) \div Scale
    ELSE 0 - ((Scale \div 2 - x) \div Scale)

\* The exact value, in ticks, of an amount at column scale.
Exact(amount) == amount * Scale

Response(op, id, result) == [op |-> op, id |-> id, result |-> result]

----------------------------------------------------------------------------
(* OrderService.create_order *)

\* The loop over order_data.items, from line i on: `st` is the stock held
\* by the session's product objects, `lines` the order items added so far
\* and `subtotal` the running sum of their line totals (exact, in ticks).
RECURSIVE ProcessItems(_, _, _, _, _)
ProcessItems(items, i, st, lines, subtotal) ==
    IF i > Len(items)
    THEN [error |-> "none", stock |-> st, lines |-> lines, subtotal |-> subtotal]
    ELSE
        LET item == items[i] IN
        IF item.product_id \notin Products
        THEN [error |-> "ProductNotFound", stock |-> st, lines |-> lines,
              subtotal |-> subtotal]
        ELSE IF st[item.product_id] < item.quantity
        THEN [error |-> "InsufficientStock", stock |-> st, lines |-> lines,
              subtotal |-> subtotal]
        ELSE
            LET line_subtotal == item.quantity * item.unit_price
                line_total == line_subtotal - Exact(item.line_discount)
                order_item ==
                    [product_id |-> item.product_id,
                     quantity |-> item.quantity,
                     unit_price |-> item.unit_price,
                     line_subtotal |-> NumericRound(line_subtotal),
                     line_discount |-> item.line_discount,
                     line_total |-> NumericRound(line_total)]
            IN  ProcessItems(items, i + 1,
                    [st EXCEPT ![item.product_id] = @ - item.quantity],
                    Append(lines, order_item),
                    subtotal + line_total)

\* The order row that the commit writes.
NewOrder(order_data, r) ==
    [status |-> "DRAFT",
     payment_status |-> "PENDING",
     payment_provider |-> None,
     payment_reference |-> NoReference,
     subtotal_amount |-> NumericRound(r.subtotal),
     shipping_amount |-> order_data.shipping_amount,
     discount_amount |-> order_data.discount_amount,
     total_amount |-> NumericRound(r.subtotal
                        + Exact(order_data.shipping_amount)
                        - Exact(order_data.discount_amount)),
     order_items |-> r.lines]

\* create_order whose failure does not roll the stock back.
create_order_no_rollback(order_data) ==
    /\ nextOrder <= MaxOrders
    /\ LET r == ProcessItems(order_data.items, 1, stock, <<>>, 0) IN
       IF r.error = "none"
       THEN /\ stock' = r.stock
            /\ orders' = orders @@ (nextOrder :> NewOrder(order_data, r))
            /\ nextOrder' = nextOrder + 1
            /\ resp' = Response("create_order", nextOrder, "ok")
       ELSE /\ resp' = Response("create_order", 0, r.error)
            /\ stock' = r.stock
            /\ UNCHANGED <<orders, nextOrder>>
    /\ UNCHANGED payments

create_order(order_data) ==
    /\ nextOrder <= MaxOrders
    /\ LET r == ProcessItems(order_data.items, 1, stock, <<>>, 0) IN
       IF r.error = "none"
       THEN /\ stock' = r.stock
            /\ orders' = orders @@ (nextOrder :> NewOrder(order_data, r))
            /\ nextOrder' = nextOrder + 1
            /\ resp' = Response("create_order", nextOrder, "ok")
       ELSE \* the exception rolls the transaction back
            /\ resp' = Response("create_order", 0, r.error)
            /\ UNCHANGED <<stock, orders, nextOrder>>
    /\ UNCHANGED payments

----------------------------------------------------------------------------
(* OrderService.update_order_status *)

update_order_status(order_id, status) ==
    /\ IF order_id \notin DOMAIN orders
       THEN /\ resp' = Response("update_order_status", order_id, "NotFound")
            /\ UNCHANGED orders
       ELSE /\ orders' = [orders EXCEPT ![order_id].status = status]
            /\ resp' = Response("update_order_status", order_id, "ok")
    /\ UNCHANGED <<stock, nextOrder, payments>>

----------------------------------------------------------------------------
(* OrderService.cancel_order and OrderService.delete_order *)

\* RestoreStock that stops after the first order item.
RestoreFirstItem(order_items, i, st) ==
    IF i > Len(order_items) \/ order_items[i].product_id \notin Products THEN st
    ELSE [st EXCEPT ![order_items[i].product_id] = @ + order_items[i].quantity]

\* The loop that gives the quantity of every order item back to its product.
RECURSIVE RestoreStock(_, _, _)
RestoreStock(order_items, i, st) ==
    IF i > Len(order_items) THEN st
    ELSE
        LET order_item == order_items[i] IN
        RestoreStock(order_items, i + 1,
            IF order_item.product_id \in Products
            THEN [st EXCEPT ![order_item.product_id] = @ + order_item.quantity]
            ELSE st)

\* cancel_order that refuses only an order already cancelled.
cancel_order_fulfilled(order_id) ==
    /\ IF order_id \notin DOMAIN orders
       THEN /\ resp' = Response("cancel_order", order_id, "NotFound")
            /\ UNCHANGED <<stock, orders>>
       ELSE IF orders[order_id].status = "CANCELLED"
       THEN /\ resp' = Response("cancel_order", order_id, "InvalidState")
            /\ UNCHANGED <<stock, orders>>
       ELSE /\ \A p \in Products :
                 RestoreStock(orders[order_id].order_items, 1, stock)[p] <= MaxStock
            /\ stock' = RestoreStock(orders[order_id].order_items, 1, stock)
            /\ orders' = [orders EXCEPT ![order_id].status = "CANCELLED"]
            /\ resp' = Response("cancel_order", order_id, "ok")
    /\ UNCHANGED <<nextOrder, payments>>

cancel_order(order_id) ==
    /\ IF order_id \notin DOMAIN orders
       THEN /\ resp' = Response("cancel_order", order_id, "NotFound")
            /\ UNCHANGED <<stock, orders>>
       ELSE IF orders[order_id].status \in {"CANCELLED", "FULFILLED"}
       THEN /\ resp' = Response("cancel_order", order_id, "InvalidState")
            /\ UNCHANGED <<stock, orders>>
       ELSE /\ \A p \in Products :
                 RestoreStock(orders[order_id].order_items, 1, stock)[p] <= MaxStock
            /\ stock' = RestoreStock(orders[order_id].order_items, 1, stock)
            /\ orders' = [orders EXCEPT ![order_id].status = "CANCELLED"]
            /\ resp' = Response("cancel_order", order_id, "ok")
    /\ UNCHANGED <<nextOrder, payments>>

\* delete_order without the check of the status.
\* shipment.order_id is declared ON DELETE CASCADE.
Cascade(order_id) ==
    [s \in {x \in DOMAIN shipments : shipments[x].order_id # order_id}
        |-> shipments[s]]

delete_order_any_status(order_id) ==
    /\ IF order_id \notin DOMAIN orders
       THEN /\ resp' = Response("delete_order", order_id, "NotFound")
            /\ UNCHANGED <<stock, orders, shipments>>
       ELSE /\ \A p \in Products :
                 RestoreStock(orders[order_id].order_items, 1, stock)[p] <= MaxStock
            /\ stock' = RestoreStock(orders[order_id].order_items, 1, stock)
            /\ orders' = [o \in DOMAIN orders \ {order_id} |-> orders[o]]
            /\ shipments' = Cascade(order_id)
            /\ resp' = Response("delete_order", order_id, "ok")
    /\ UNCHANGED <<nextOrder, payments>>

delete_order(order_id) ==
    /\ IF order_id \notin DOMAIN orders
       THEN /\ resp' = Response("delete_order", order_id, "NotFound")
            /\ UNCHANGED <<stock, orders, shipments>>
       ELSE IF orders[order_id].status # "DRAFT"
       THEN /\ resp' = Response("delete_order", order_id, "InvalidState")
            /\ UNCHANGED <<stock, orders, shipments>>
       ELSE /\ \A p \in Products :
                 RestoreStock(orders[order_id].order_items, 1, stock)[p] <= MaxStock
            /\ stock' = RestoreStock(orders[order_id].order_items, 1, stock)
            /\ orders' = [o \in DOMAIN orders \ {order_id} |-> orders[o]]
            /\ shipments' = Cascade(order_id)
            /\ resp' = Response("delete_order", order_id, "ok")
    /\ UNCHANGED <<nextOrder, payments>>

----------------------------------------------------------------------------
(* ProductService.update_stock *)

\* update_stock without the check of the new quantity.
update_stock_unchecked(product_id, quantity_change) ==
    /\ IF product_id \notin Products
       THEN /\ resp' = Response("update_stock", product_id, "NotFound")
            /\ UNCHANGED stock
       ELSE LET new_quantity == stock[product_id] + quantity_change IN
            /\ new_quantity <= MaxStock
            /\ stock' = [stock EXCEPT ![product_id] = new_quantity]
            /\ resp' = Response("update_stock", product_id, "ok")
    /\ UNCHANGED <<orders, nextOrder, payments>>

update_stock(product_id, quantity_change) ==
    /\ IF product_id \notin Products
       THEN /\ resp' = Response("update_stock", product_id, "NotFound")
            /\ UNCHANGED stock
       ELSE LET new_quantity == stock[product_id] + quantity_change IN
            IF new_quantity < 0
            THEN /\ resp' = Response("update_stock", product_id, "InsufficientStock")
                 /\ UNCHANGED stock
            ELSE /\ new_quantity <= MaxStock
                 /\ stock' = [stock EXCEPT ![product_id] = new_quantity]
                 /\ resp' = Response("update_stock", product_id, "ok")
    /\ UNCHANGED <<orders, nextOrder, payments>>

----------------------------------------------------------------------------
(* OrderService.update_order *)

\* The row after UPDATE ... VALUES(**update_data).
Patched(order, update_data) ==
    [f \in DOMAIN order |->
        IF f \in DOMAIN update_data THEN update_data[f] ELSE order[f]]

update_order(order_id, order_update) ==
    /\ IF order_id \notin DOMAIN orders
       THEN /\ resp' = Response("update_order", order_id, "NotFound")
            /\ UNCHANGED orders
       ELSE LET order == orders[order_id]
                update_data ==
                    IF {"shipping_amount", "discount_amount"}
                          \cap DOMAIN order_update # {}
                    THEN LET shipping_amount ==
                                 IF "shipping_amount" \in DOMAIN order_update
                                 THEN order_update.shipping_amount
                                 ELSE order.shipping_amount
                             discount_amount ==
                                 IF "discount_amount" \in DOMAIN order_update
                                 THEN order_update.discount_amount
                                 ELSE order.discount_amount
                         IN  order_update @@
                             [total_amount |->
                                 order.subtotal_amount + shipping_amount
                                    - discount_amount]
                    ELSE order_update
            IN  /\ orders' = [orders EXCEPT ![order_id] = Patched(order, update_data)]
                /\ resp' = Response("update_order", order_id, "ok")
    /\ UNCHANGED <<stock, nextOrder, payments>>

----------------------------------------------------------------------------
(* PaymentService, with PayPalProvider behind it *)

\* What a call of the provider can come to: it answers with success, it
\* answers with an error, or the call raises (timeout, transport error).
\* PayPalProvider turns the last two into {"success": False}.
ProviderOutcomes == {"ok", "error", "timeout"}

\* Payments made elsewhere on the same PayPal account: the custom field of
\* the first is empty, that of the second is no order id of this system.
NoCustomPayment == 0
BadCustomPayment == MaxPayments + 1
ForeignPayments == {NoCustomPayment, BadCustomPayment}

\* The custom field the provider echoes is the order id given at creation;
\* these two stand for an empty field and for text that is no UUID.
EmptyToken == 0
MalformedToken == 0 - 1

\* create_paypal_payment without the check of payment_status.
create_paypal_payment_no_paid_check(order_id, outcome) ==
    /\ IF order_id \notin DOMAIN orders
       THEN /\ resp' = Response("create_paypal_payment", order_id, "NotFound")
            /\ UNCHANGED <<orders, payments>>
       ELSE IF orders[order_id].status \notin {"DRAFT", "PENDING_PAYMENT"}
       THEN /\ resp' = Response("create_paypal_payment", order_id, "InvalidState")
            /\ UNCHANGED <<orders, payments>>
       ELSE IF outcome # "ok"
       THEN /\ resp' = Response("create_paypal_payment", order_id, "ProviderError")
            /\ UNCHANGED <<orders, payments>>
       ELSE /\ Len(payments) < MaxPayments
            /\ payments' = Append(payments, [custom |-> order_id, state |-> "created"])
            /\ orders' = [orders EXCEPT ![order_id] =
                            Patched(@, [payment_provider |-> "PAYPAL",
                                        payment_reference |-> PaymentRef(Len(payments) + 1),
                                        payment_status |-> "PENDING",
                                        status |-> "PENDING_PAYMENT"])]
            /\ resp' = Response("create_paypal_payment", order_id, "ok")
    /\ UNCHANGED <<stock, nextOrder>>

create_paypal_payment(order_id, outcome) ==
    /\ IF order_id \notin DOMAIN orders
       THEN /\ resp' = Response("create_paypal_payment", order_id, "NotFound")
            /\ UNCHANGED <<orders, payments>>
       ELSE IF orders[order_id].status \notin {"DRAFT", "PENDING_PAYMENT"}
       THEN /\ resp' = Response("create_paypal_payment", order_id, "InvalidState")
            /\ UNCHANGED <<orders, payments>>
       ELSE IF orders[order_id].payment_status = "CAPTURED"
       THEN /\ resp' = Response("create_paypal_payment", order_id, "AlreadyPaid")
            /\ UNCHANGED <<orders, payments>>
       ELSE IF outcome # "ok"
       THEN /\ resp' = Response("create_paypal_payment", order_id, "ProviderError")
            /\ UNCHANGED <<orders, payments>>
       ELSE /\ Len(payments) < MaxPayments
            /\ payments' = Append(payments, [custom |-> order_id, state |-> "created"])
            /\ orders' = [orders EXCEPT ![order_id] =
                            Patched(@, [payment_provider |-> "PAYPAL",
                                        payment_reference |-> PaymentRef(Len(payments) + 1),
                                        payment_status |-> "PENDING",
                                        status |-> "PENDING_PAYMENT"])]
            /\ resp' = Response("create_paypal_payment", order_id, "ok")
    /\ UNCHANGED <<stock, nextOrder>>

\* PayPalProvider.execute_payment: success needs a payment the provider
\* knows and has not executed yet.  `sale` tells whether the executed
\* payment carries a sale, whose id is the transaction id.
ExecutionResult(payment_id, outcome, sale) ==
    IF payment_id \in ForeignPayments
    THEN [success |-> outcome = "ok",
          transaction_id |-> IF sale THEN SaleRef(payment_id) ELSE NoReference,
          order_id |-> IF payment_id = NoCustomPayment THEN EmptyToken
                      ELSE MalformedToken]
    ELSE IF payment_id \in DOMAIN payments
            /\ payments[payment_id].state = "created" /\ outcome = "ok"
    THEN [success |-> TRUE,
          transaction_id |-> IF sale THEN SaleRef(payment_id) ELSE NoReference,
          order_id |-> payments[payment_id].custom]
    ELSE [success |-> FALSE, transaction_id |-> NoReference,
          order_id |-> EmptyToken]

\* `if order_id:` and UUID(order_id): the token names an order id.
IsOrderToken(order_id) == order_id \notin {EmptyToken, MalformedToken}

\* execute_paypal_payment writing the order before it looks at the
\* provider's answer.
execute_paypal_payment_ignore_failure(payment_id, outcome, sale) ==
    LET execution_result == ExecutionResult(payment_id, outcome, sale) IN
    /\ resp' = Response("execute_paypal_payment", payment_id,
                        IF execution_result.success THEN "ok" ELSE "ProviderError")
    /\ payments' =
          IF execution_result.success /\ payment_id \notin ForeignPayments
          THEN [payments EXCEPT ![payment_id].state = "executed"]
          ELSE payments
    /\ IF payment_id \in DOMAIN payments
          /\ payments[payment_id].custom \in DOMAIN orders
       THEN orders' =
              [orders EXCEPT ![payments[payment_id].custom] =
                  Patched(@, [payment_status |-> "CAPTURED",
                              status |-> "PAID",
                              payment_reference |-> PaymentRef(payment_id)])]
       ELSE UNCHANGED orders
    /\ UNCHANGED <<stock, nextOrder>>

\* execute_paypal_payment storing the transaction id as it comes, without
\* the payment id to fall back on.
execute_paypal_payment_no_fallback(payment_id, outcome, sale) ==
    LET execution_result == ExecutionResult(payment_id, outcome, sale) IN
    /\ IF ~execution_result.success
       THEN /\ resp' = Response("execute_paypal_payment", payment_id, "ProviderError")
            /\ UNCHANGED <<orders, payments>>
       ELSE /\ payments' =
                 IF payment_id \in ForeignPayments THEN payments
                 ELSE [payments EXCEPT ![payment_id].state = "executed"]
            /\ resp' = Response("execute_paypal_payment", payment_id, "ok")
            /\ IF IsOrderToken(execution_result.order_id)
                  /\ execution_result.order_id \in DOMAIN orders
               THEN orders' =
                      [orders EXCEPT ![execution_result.order_id] =
                          Patched(@, [payment_status |-> "CAPTURED",
                                      status |-> "PAID",
                                      payment_reference |->
                                          execution_result.transaction_id])]
               ELSE UNCHANGED orders
    /\ UNCHANGED <<stock, nextOrder>>

\* execute_paypal_payment writing the order's status and reference without
\* its payment status.
execute_paypal_payment_status_only(payment_id, outcome, sale) ==
    LET execution_result == ExecutionResult(payment_id, outcome, sale) IN
    /\ IF ~execution_result.success
       THEN /\ resp' = Response("execute_paypal_payment", payment_id, "ProviderError")
            /\ UNCHANGED <<orders, payments>>
       ELSE /\ payments' =
                 IF payment_id \in ForeignPayments THEN payments
                 ELSE [payments EXCEPT ![payment_id].state = "executed"]
            /\ resp' = Response("execute_paypal_payment", payment_id, "ok")
            /\ IF IsOrderToken(execution_result.order_id)
                  /\ execution_result.order_id \in DOMAIN orders
               THEN orders' =
                      [orders EXCEPT ![execution_result.order_id] =
                          Patched(@, [status |-> "PAID",
                                      payment_reference |->
                                          IF execution_result.transaction_id # NoReference
                                          THEN execution_result.transaction_id
                                          ELSE PaymentRef(payment_id)])]
               ELSE UNCHANGED orders
    /\ UNCHANGED <<stock, nextOrder>>

execute_paypal_payment(payment_id, outcome, sale) ==
    LET execution_result == ExecutionResult(payment_id, outcome, sale) IN
    /\ IF ~execution_result.success
       THEN /\ resp' = Response("execute_paypal_payment", payment_id, "ProviderError")
            /\ UNCHANGED <<orders, payments>>
       ELSE /\ payments' =
                 IF payment_id \in ForeignPayments THEN payments
                 ELSE [payments EXCEPT ![payment_id].state = "executed"]
            /\ resp' = Response("execute_paypal_payment", payment_id, "ok")
            /\ IF IsOrderToken(execution_result.order_id)
                  /\ execution_result.order_id \in DOMAIN orders
               THEN orders' =
                      [orders EXCEPT ![execution_result.order_id] =
                          Patched(@, [payment_status |-> "CAPTURED",
                                      status |-> "PAID",
                                      payment_reference |->
                                          IF execution_result.transaction_id # NoReference
                                          THEN execution_result.transaction_id
                                          ELSE PaymentRef(payment_id)])]
               ELSE \* no token, a token that is no UUID, or no such row
                    UNCHANGED orders
    /\ UNCHANGED <<stock, nextOrder>>

\* refund_paypal_payment without the check of payment_status.
refund_paypal_payment_no_captured_check(order_id, amount, outcome) ==
    /\ IF order_id \notin DOMAIN orders
       THEN /\ resp' = Response("refund_paypal_payment", order_id, "NotFound")
            /\ UNCHANGED orders
       ELSE IF orders[order_id].payment_provider # "PAYPAL"
       THEN /\ resp' = Response("refund_paypal_payment", order_id, "NotPayPal")
            /\ UNCHANGED orders
       ELSE IF orders[order_id].payment_reference = NoReference
       THEN /\ resp' = Response("refund_paypal_payment", order_id, "NoReference")
            /\ UNCHANGED orders
       ELSE IF outcome # "ok"
       THEN /\ resp' = Response("refund_paypal_payment", order_id, "ProviderError")
            /\ UNCHANGED orders
       ELSE LET new_payment_status ==
                    IF amount # <<>> /\ amount[1] # 0
                       /\ amount[1] < orders[order_id].total_amount
                    THEN "CAPTURED" ELSE "REFUNDED"
            IN  /\ orders' = [orders EXCEPT
                                ![order_id].payment_status = new_payment_status]
                /\ resp' = Response("refund_paypal_payment", order_id, "ok")
    /\ UNCHANGED <<stock, nextOrder, payments>>

\* amount is <<>> (None) or <<a>>.
refund_paypal_payment(order_id, amount, outcome) ==
    /\ IF order_id \notin DOMAIN orders
       THEN /\ resp' = Response("refund_paypal_payment", order_id, "NotFound")
            /\ UNCHANGED orders
       ELSE IF orders[order_id].payment_provider # "PAYPAL"
       THEN /\ resp' = Response("refund_paypal_payment", order_id, "NotPayPal")
            /\ UNCHANGED orders
       ELSE IF orders[order_id].payment_status # "CAPTURED"
       THEN /\ resp' = Response("refund_paypal_payment", order_id, "NotCaptured")
            /\ UNCHANGED orders
       ELSE IF orders[order_id].payment_reference = NoReference
       THEN /\ resp' = Response("refund_paypal_payment", order_id, "NoReference")
            /\ UNCHANGED orders
       ELSE IF outcome # "ok"
       THEN /\ resp' = Response("refund_paypal_payment", order_id, "ProviderError")
            /\ UNCHANGED orders
       ELSE LET new_payment_status ==
                    IF amount # <<>> /\ amount[1] # 0
                       /\ amount[1] < orders[order_id].total_amount
                    THEN "CAPTURED" ELSE "REFUNDED"
            IN  /\ orders' = [orders EXCEPT
                                ![order_id].payment_status = new_payment_status]
                /\ resp' = Response("refund_paypal_payment", order_id, "ok")
    /\ UNCHANGED <<stock, nextOrder, payments>>

----------------------------------------------------------------------------
(* ShipmentService *)

ShipmentStatus == {"PENDING", "PACKED", "SHIPPED", "DELIVERED", "CANCELLED"}
ShipmentIds == 1 .. MaxShipments

\* A timestamp column that is NULL.
NoTime == 0

\* The shipments of an order.
get_shipment_by_order(order_id) ==
    {s \in DOMAIN shipments : shipments[s].order_id = order_id}

\* The row ShipmentModel(**shipment_data) inserts.
NewShipment(shipment_data) ==
    [order_id |-> shipment_data.order_id,
     status |-> "PENDING",
     carrier_name |-> shipment_data.carrier_name,
     tracking_number |-> shipment_data.tracking_number,
     shipped_at |-> NoTime,
     delivered_at |-> NoTime]

\* update_shipment_status stamping at every push.
WithStatusStamped(shipment, status, update_timestamps) ==
    LET update_data ==
            IF update_timestamps /\ status = "SHIPPED"
            THEN [status |-> status, shipped_at |-> now]
            ELSE IF update_timestamps /\ status = "DELIVERED"
            THEN [status |-> status, delivered_at |-> now]
            ELSE [status |-> status]
    IN  Patched(shipment, update_data)

\* The row after update_shipment_status.
WithStatus(shipment, status, update_timestamps) ==
    LET update_data ==
            IF update_timestamps /\ status = "SHIPPED"
               /\ shipment.shipped_at = NoTime
            THEN [status |-> status, shipped_at |-> now]
            ELSE IF update_timestamps /\ status = "DELIVERED"
                    /\ shipment.delivered_at = NoTime
            THEN [status |-> status, delivered_at |-> now]
            ELSE [status |-> status]
    IN  Patched(shipment, update_data)

\* create_shipment without the look for an existing shipment.
create_shipment_no_duplicate_check(shipment_data) ==
    /\ IF shipment_data.order_id \notin DOMAIN orders
       THEN /\ resp' = Response("create_shipment", shipment_data.order_id, "OrderNotFound")
            /\ UNCHANGED <<shipments, nextShipment>>
       ELSE /\ nextShipment <= MaxShipments
            /\ shipments' = shipments @@ (nextShipment :> NewShipment(shipment_data))
            /\ nextShipment' = nextShipment + 1
            /\ resp' = Response("create_shipment", shipment_data.order_id, "ok")
    /\ UNCHANGED now

create_shipment(shipment_data) ==
    /\ IF shipment_data.order_id \notin DOMAIN orders
       THEN /\ resp' = Response("create_shipment", shipment_data.order_id, "OrderNotFound")
            /\ UNCHANGED <<shipments, nextShipment>>
       ELSE IF get_shipment_by_order(shipment_data.order_id) # {}
       THEN /\ resp' = Response("create_shipment", shipment_data.order_id,
                                "DuplicateShipment")
            /\ UNCHANGED <<shipments, nextShipment>>
       ELSE /\ nextShipment <= MaxShipments
            /\ shipments' = shipments @@ (nextShipment :> NewShipment(shipment_data))
            /\ nextShipment' = nextShipment + 1
            /\ resp' = Response("create_shipment", shipment_data.order_id, "ok")
    /\ UNCHANGED now

update_shipment(shipment_id, shipment_update) ==
    /\ IF shipment_id \notin DOMAIN shipments
       THEN /\ resp' = Response("update_shipment", shipment_id, "NotFound")
            /\ UNCHANGED shipments
       ELSE /\ shipments' = [shipments EXCEPT ![shipment_id] =
                                Patched(@, shipment_update)]
            /\ resp' = Response("update_shipment", shipment_id, "ok")
    /\ UNCHANGED <<nextShipment, now>>

update_shipment_status(shipment_id, status) ==
    /\ IF shipment_id \notin DOMAIN shipments
       THEN /\ resp' = Response("update_shipment_status", shipment_id, "NotFound")
            /\ UNCHANGED shipments
       ELSE /\ shipments' = [shipments EXCEPT ![shipment_id] =
                                WithStatus(@, status, TRUE)]
            /\ resp' = Response("update_shipment_status", shipment_id, "ok")
    /\ UNCHANGED <<nextShipment, now>>

deliver_shipment(shipment_id) ==
    /\ IF shipment_id \notin DOMAIN shipments
       THEN /\ resp' = Response("deliver_shipment", shipment_id, "NotFound")
            /\ UNCHANGED shipments
       ELSE /\ shipments' = [shipments EXCEPT ![shipment_id] =
                                WithStatus(@, "DELIVERED", TRUE)]
            /\ resp' = Response("deliver_shipment", shipment_id, "ok")
    /\ UNCHANGED <<nextShipment, now>>

\* ship_order patching carrier and tracking number of an existing shipment
\* without its status.
ship_order_keep_status(order_id, carrier_name, tracking_number) ==
    /\ IF get_shipment_by_order(order_id) # {}
       THEN LET shipment_id == CHOOSE s \in get_shipment_by_order(order_id) : TRUE
                shipment_update ==
                    [carrier_name |-> carrier_name,
                     tracking_number |-> tracking_number]
            IN  /\ shipments' = [shipments EXCEPT ![shipment_id] =
                                    Patched(@, shipment_update)]
                /\ resp' = Response("ship_order", order_id, "ok")
                /\ UNCHANGED nextShipment
       ELSE IF order_id \notin DOMAIN orders
       THEN /\ resp' = Response("ship_order", order_id, "OrderNotFound")
            /\ UNCHANGED <<shipments, nextShipment>>
       ELSE LET shipment_create ==
                    [order_id |-> order_id, carrier_name |-> carrier_name,
                     tracking_number |-> tracking_number]
            IN  /\ nextShipment <= MaxShipments
                /\ shipments' = shipments @@
                      (nextShipment :>
                          WithStatus(NewShipment(shipment_create), "SHIPPED", TRUE))
                /\ nextShipment' = nextShipment + 1
                /\ resp' = Response("ship_order", order_id, "ok")
    /\ UNCHANGED now

\* An existing shipment is patched; otherwise one is created and then
\* pushed to SHIPPED.
ship_order(order_id, carrier_name, tracking_number) ==
    /\ IF get_shipment_by_order(order_id) # {}
       THEN LET shipment_id == CHOOSE s \in get_shipment_by_order(order_id) : TRUE
                shipment_update ==
                    [carrier_name |-> carrier_name,
                     tracking_number |-> tracking_number,
                     status |-> "SHIPPED",
                     shipped_at |-> now]
            IN  /\ shipments' = [shipments EXCEPT ![shipment_id] =
                                    Patched(@, shipment_update)]
                /\ resp' = Response("ship_order", order_id, "ok")
                /\ UNCHANGED nextShipment
       ELSE IF order_id \notin DOMAIN orders
       THEN /\ resp' = Response("ship_order", order_id, "OrderNotFound")
            /\ UNCHANGED <<shipments, nextShipment>>
       ELSE LET shipment_create ==
                    [order_id |-> order_id, carrier_name |-> carrier_name,
                     tracking_number |-> tracking_number]
            IN  /\ nextShipment <= MaxShipments
                /\ shipments' = shipments @@
                      (nextShipment :>
                          WithStatus(NewShipment(shipment_create), "SHIPPED", TRUE))
                /\ nextShipment' = nextShipment + 1
                /\ resp' = Response("ship_order", order_id, "ok")
    /\ UNCHANGED now

\* cancel_shipment without the check of the status.
cancel_shipment_delivered(shipment_id) ==
    /\ IF shipment_id \notin DOMAIN shipments
       THEN /\ resp' = Response("cancel_shipment", shipment_id, "NotFound")
            /\ UNCHANGED shipments
       ELSE /\ shipments' = [shipments EXCEPT ![shipment_id] =
                                WithStatus(@, "CANCELLED", FALSE)]
            /\ resp' = Response("cancel_shipment", shipment_id, "ok")
    /\ UNCHANGED <<nextShipment, now>>

cancel_shipment(shipment_id) ==
    /\ IF shipment_id \notin DOMAIN shipments
       THEN /\ resp' = Response("cancel_shipment", shipment_id, "NotFound")
            /\ UNCHANGED shipments
       ELSE IF shipments[shipment_id].status = "DELIVERED"
       THEN /\ resp' = Response("cancel_shipment", shipment_id, "InvalidState")
            /\ UNCHANGED shipments
       ELSE /\ shipments' = [shipments EXCEPT ![shipment_id] =
                                WithStatus(@, "CANCELLED", FALSE)]
            /\ resp' = Response("cancel_shipment", shipment_id, "ok")
    /\ UNCHANGED <<nextShipment, now>>

delete_shipment(shipment_id) ==
    /\ IF shipment_id \notin DOMAIN shipments
       THEN /\ resp' = Response("delete_shipment", shipment_id, "NotFound")
            /\ UNCHANGED shipments
       ELSE IF shipments[shipment_id].status \in {"SHIPPED", "DELIVERED"}
       THEN /\ resp' = Response("delete_shipment", shipment_id, "InvalidState")
            /\ UNCHANGED shipments
       ELSE /\ shipments' = [s \in DOMAIN shipments \ {shipment_id} |-> shipments[s]]
            /\ resp' = Response("delete_shipment", shipment_id, "ok")
    /\ UNCHANGED <<nextShipment, now>>

\* Time passes between two requests.
Tick ==
    /\ now < MaxTime
    /\ now' = now + 1
    /\ resp' = Response("none", 0, "ok")
    /\ UNCHANGED <<shipments, nextShipment>>

----------------------------------------------------------------------------
(* CartService *)

CartStatus == {"ACTIVE", "ABANDONED", "CONVERTED"}
CartIds == 1 .. MaxCarts
CartItemIds == 1 .. MaxCartItems

\* The ACTIVE carts of a session.
get_cart_by_session(session_id) ==
    {c \in DOMAIN carts :
        carts[c].session_id = session_id /\ carts[c].status = "ACTIVE"}

NewCart(session_id) == [session_id |-> session_id, status |-> "ACTIVE"]

\* The items of a cart.
cart_items(cart_id) == {i \in DOMAIN cartItems : cartItems[i].cart_id = cart_id}

create_cart(session_id) ==
    /\ nextCart <= MaxCarts
    /\ carts' = carts @@ (nextCart :> NewCart(session_id))
    /\ nextCart' = nextCart + 1
    /\ resp' = Response("create_cart", session_id, "ok")
    /\ UNCHANGED <<cartItems, nextCartItem>>

delete_cart(cart_id) ==
    /\ IF cart_id \notin DOMAIN carts
       THEN /\ resp' = Response("delete_cart", cart_id, "NotFound")
            /\ UNCHANGED <<carts, cartItems>>
       ELSE /\ cartItems' = [i \in DOMAIN cartItems \ cart_items(cart_id)
                                |-> cartItems[i]]
            /\ carts' = [c \in DOMAIN carts \ {cart_id} |-> carts[c]]
            /\ resp' = Response("delete_cart", cart_id, "ok")
    /\ UNCHANGED <<nextCart, nextCartItem>>

\* add_item_to_cart inserting a line at every call.
add_item_to_cart_no_merge(session_id, product_id, quantity) ==
    LET found == get_cart_by_session(session_id) IN
    /\ IF Cardinality(found) > 1
       THEN \* scalar_one_or_none raises MultipleResultsFound
            /\ resp' = Response("add_item_to_cart", session_id, "InternalError")
            /\ UNCHANGED <<carts, cartItems, nextCart, nextCartItem>>
       ELSE LET cart_id == IF found = {} THEN nextCart
                           ELSE CHOOSE c \in found : TRUE
                existing_item ==
                    {i \in DOMAIN cartItems :
                        /\ cartItems[i].cart_id = cart_id
                        /\ cartItems[i].product_id = product_id}
            IN  \* create_cart commits the new cart before the product is read
                /\ found = {} => nextCart <= MaxCarts
                /\ carts' = IF found = {} THEN carts @@ (nextCart :> NewCart(session_id))
                            ELSE carts
                /\ nextCart' = IF found = {} THEN nextCart + 1 ELSE nextCart
                /\ IF product_id = NoSuchProduct
                   THEN /\ resp' = Response("add_item_to_cart", session_id,
                                            "ProductNotFound")
                        /\ UNCHANGED <<cartItems, nextCartItem>>
                   ELSE IF product_id = InactiveProduct
                   THEN /\ resp' = Response("add_item_to_cart", session_id,
                                            "ProductInactive")
                        /\ UNCHANGED <<cartItems, nextCartItem>>
                   ELSE IF stock[product_id] < quantity
                   THEN /\ resp' = Response("add_item_to_cart", session_id,
                                            "InsufficientStock")
                        /\ UNCHANGED <<cartItems, nextCartItem>>
                   ELSE /\ nextCartItem <= MaxCartItems
                        /\ cartItems' = cartItems @@
                              (nextCartItem :>
                                  [cart_id |-> cart_id,
                                   product_id |-> product_id,
                                   quantity |-> quantity,
                                   unit_price |-> price_per_unit[product_id]])
                        /\ nextCartItem' = nextCartItem + 1
                        /\ resp' = Response("add_item_to_cart", session_id, "ok")

add_item_to_cart(session_id, product_id, quantity) ==
    LET found == get_cart_by_session(session_id) IN
    /\ IF Cardinality(found) > 1
       THEN \* scalar_one_or_none raises MultipleResultsFound
            /\ resp' = Response("add_item_to_cart", session_id, "InternalError")
            /\ UNCHANGED <<carts, cartItems, nextCart, nextCartItem>>
       ELSE LET cart_id == IF found = {} THEN nextCart
                           ELSE CHOOSE c \in found : TRUE
                existing_item ==
                    {i \in DOMAIN cartItems :
                        /\ cartItems[i].cart_id = cart_id
                        /\ cartItems[i].product_id = product_id}
            IN  \* create_cart commits the new cart before the product is read
                /\ found = {} => nextCart <= MaxCarts
                /\ carts' = IF found = {} THEN carts @@ (nextCart :> NewCart(session_id))
                            ELSE carts
                /\ nextCart' = IF found = {} THEN nextCart + 1 ELSE nextCart
                /\ IF product_id = NoSuchProduct
                   THEN /\ resp' = Response("add_item_to_cart", session_id,
                                            "ProductNotFound")
                        /\ UNCHANGED <<cartItems, nextCartItem>>
                   ELSE IF product_id = InactiveProduct
                   THEN /\ resp' = Response("add_item_to_cart", session_id,
                                            "ProductInactive")
                        /\ UNCHANGED <<cartItems, nextCartItem>>
                   ELSE IF stock[product_id] < quantity
                   THEN /\ resp' = Response("add_item_to_cart", session_id,
                                            "InsufficientStock")
                        /\ UNCHANGED <<cartItems, nextCartItem>>
                   ELSE IF Cardinality(existing_item) > 1
                   THEN /\ resp' = Response("add_item_to_cart", session_id,
                                            "InternalError")
                        /\ UNCHANGED <<cartItems, nextCartItem>>
                   ELSE IF existing_item # {}
                   THEN LET i == CHOOSE x \in existing_item : TRUE
                            new_quantity == cartItems[i].quantity + quantity
                        IN  IF stock[product_id] < new_quantity
                            THEN /\ resp' = Response("add_item_to_cart", session_id,
                                                     "InsufficientStock")
                                 /\ UNCHANGED <<cartItems, nextCartItem>>
                            ELSE /\ cartItems' = [cartItems EXCEPT
                                                    ![i].quantity = new_quantity]
                                 /\ resp' = Response("add_item_to_cart", session_id, "ok")
                                 /\ UNCHANGED nextCartItem
                   ELSE /\ nextCartItem <= MaxCartItems
                        /\ cartItems' = cartItems @@
                              (nextCartItem :>
                                  [cart_id |-> cart_id,
                                   product_id |-> product_id,
                                   quantity |-> quantity,
                                   unit_price |-> price_per_unit[product_id]])
                        /\ nextCartItem' = nextCartItem + 1
                        /\ resp' = Response("add_item_to_cart", session_id, "ok")

update_cart_item(cart_item_id, quantity) ==
    /\ IF cart_item_id \notin DOMAIN cartItems
       THEN /\ resp' = Response("update_cart_item", cart_item_id, "NotFound")
            /\ UNCHANGED cartItems
       ELSE IF stock[cartItems[cart_item_id].product_id] < quantity
       THEN /\ resp' = Response("update_cart_item", cart_item_id, "InsufficientStock")
            /\ UNCHANGED cartItems
       ELSE /\ cartItems' = [cartItems EXCEPT ![cart_item_id].quantity = quantity]
            /\ resp' = Response("update_cart_item", cart_item_id, "ok")
    /\ UNCHANGED <<carts, nextCart, nextCartItem>>

remove_cart_item(cart_item_id) ==
    /\ IF cart_item_id \notin DOMAIN cartItems
       THEN /\ resp' = Response("remove_cart_item", cart_item_id, "NotFound")
            /\ UNCHANGED cartItems
       ELSE /\ cartItems' = [i \in DOMAIN cartItems \ {cart_item_id} |-> cartItems[i]]
            /\ resp' = Response("remove_cart_item", cart_item_id, "ok")
    /\ UNCHANGED <<carts, nextCart, nextCartItem>>

\* No ACTIVE cart, or an exception of the lookup, is answered "not found".
clear_cart(session_id) ==
    /\ IF Cardinality(get_cart_by_session(session_id)) # 1
       THEN /\ resp' = Response("clear_cart", session_id, "NotFound")
            /\ UNCHANGED cartItems
       ELSE LET cart_id == CHOOSE c \in get_cart_by_session(session_id) : TRUE
            IN  /\ cartItems' = [i \in DOMAIN cartItems \ cart_items(cart_id)
                                    |-> cartItems[i]]
                /\ resp' = Response("clear_cart", session_id, "ok")
    /\ UNCHANGED <<carts, nextCart, nextCartItem>>

\* convert_cart_to_order emptying the cart it converts.
convert_cart_to_order_clearing(cart_id) ==
    /\ IF cart_id \notin DOMAIN carts
       THEN /\ resp' = Response("convert_cart_to_order", cart_id, "NotFound")
            /\ UNCHANGED <<carts, cartItems>>
       ELSE /\ carts' = [carts EXCEPT ![cart_id].status = "CONVERTED"]
            /\ cartItems' = [i \in DOMAIN cartItems \ cart_items(cart_id)
                                |-> cartItems[i]]
            /\ resp' = Response("convert_cart_to_order", cart_id, "ok")
    /\ UNCHANGED <<nextCart, nextCartItem>>

convert_cart_to_order(cart_id) ==
    /\ IF cart_id \notin DOMAIN carts
       THEN /\ resp' = Response("convert_cart_to_order", cart_id, "NotFound")
            /\ UNCHANGED carts
       ELSE /\ carts' = [carts EXCEPT ![cart_id].status = "CONVERTED"]
            /\ resp' = Response("convert_cart_to_order", cart_id, "ok")
    /\ UNCHANGED <<cartItems, nextCart, nextCartItem>>

----------------------------------------------------------------------------
(* OrderService.create_order, two requests at a time.  Every request has a
   session and a transaction of its own.  The engine is created with the
   database's default isolation and the products are read with a plain
   db.get, so a request's loop sees the stock committed at the time it
   reads, keeps the new quantities on its session's product objects, and
   its commit writes those quantities to the product rows. *)

TxnIds == 1 .. MaxTxns

\* The products whose rows the session has changed.
Touched(order_data) ==
    {order_data.items[i].product_id : i \in DOMAIN order_data.items}

\* The loop over the items of request t: the reads and the checks.
create_order_read(t, order_data) ==
    /\ t \notin DOMAIN txns
    /\ nextOrder + Cardinality(DOMAIN txns) <= MaxOrders
    /\ LET r == ProcessItems(order_data.items, 1, stock, <<>>, 0) IN
       IF r.error = "none"
       THEN /\ txns' = txns @@ (t :> [order_data |-> order_data, r |-> r])
            /\ resp' = Response("none", 0, "ok")
       ELSE /\ resp' = Response("create_order", 0, r.error)
            /\ UNCHANGED txns
    /\ UNCHANGED <<stock, orders, nextOrder, payments>>

\* The commit of request t: the order, its items and the session's
\* product quantities are written.
create_order_commit(t) ==
    /\ t \in DOMAIN txns
    /\ LET txn == txns[t] IN
       /\ stock' = [p \in Products |->
                       IF p \in Touched(txn.order_data)
                       THEN txn.r.stock[p] ELSE stock[p]]
       /\ orders' = orders @@ (nextOrder :> NewOrder(txn.order_data, txn.r))
       /\ nextOrder' = nextOrder + 1
       /\ resp' = Response("create_order", nextOrder, "ok")
    /\ txns' = [u \in DOMAIN txns \ {t} |-> txns[u]]
    /\ UNCHANGED payments

----------------------------------------------------------------------------
(* The requests *)

OrderLines(prices, discounts) ==
    [product_id : ProductIds, quantity : 1 .. MaxQty,
     unit_price : prices, line_discount : discounts]

SeqsUpTo(S, n) == UNION {[1 .. k -> S] : k \in 0 .. n}

OrderRequests(prices, discounts, amounts) ==
    [items : SeqsUpTo(OrderLines(prices, discounts), MaxLines),
     shipping_amount : amounts, discount_amount : amounts]

\* Requests of the stock specification: one price, whose products with
\* the quantities are not whole hundredths.
StockRequests == OrderRequests({50}, {0}, {0})

StockChanges == {0 - MaxQty, 0 - 1, 1}

\* Requests of the payment specification: one line of one product.
PaidRequests ==
    {[items |-> <<[product_id |-> "p1", quantity |-> 1, unit_price |-> 250,
                   line_discount |-> 0]>>,
      shipping_amount |-> 0, discount_amount |-> 0]}

\* Requests with an order discount and a shipping cost, and patches of
\* the two amounts.
TotalRequests == OrderRequests({50}, {0}, {0, 1})
AmountPatches ==
    {[shipping_amount |-> a] : a \in {0, 1}}
       \cup {[discount_amount |-> a] : a \in {0, 1}}
       \cup {[shipping_amount |-> 1, discount_amount |-> 1]}

\* Requests whose lines carry a price chosen by the client and a line
\* discount.
LineRequests == OrderRequests({50, 250}, {0, 1}, {0})

\* The patches the farmer's pages send: a new status.
StatusPatches == {[status |-> s] : s \in {"FULFILLED", "CANCELLED"}}

RefundAmounts == {<<>>, <<0>>, <<1>>}

\* Every refund request up to MaxRefund hundredths, and the request with
\* no amount.
MaxRefund == 4
RefundRequests == {<<>>} \cup {<<a>> : a \in 0 .. MaxRefund}

\* A patch that empties the payment reference of an order.
ReferencePatches == {[payment_reference |-> NoReference]}

MaxSessions == 2
Sessions == 1 .. MaxSessions
CartProducts == Products \cup {NoSuchProduct, InactiveProduct}

Carriers == {"c1"}
TrackingNumbers == {"t1", "t2"}

ShipmentRequests ==
    {[order_id |-> o, carrier_name |-> None, tracking_number |-> None] :
        o \in OrderIds}

\* Patches of a shipment's status.
ShipmentStatusPatches == {[status |-> status] : status \in ShipmentStatus}

----------------------------------------------------------------------------
(* Specifications *)

NoSnapshot == [valid |-> FALSE, order |-> 0, stock |-> [p \in Products |-> 0]]

\* The history variable after a request: a successful creation records the
\* stock it found; the record stays while no request changes stock, and
\* through the cancellation of the order itself.
TrackStock ==
    stockAtCreate' =
        IF resp'.op = "create_order" /\ resp'.result = "ok"
        THEN [valid |-> TRUE, order |-> resp'.id, stock |-> stock]
        ELSE IF stock' = stock THEN stockAtCreate
        ELSE IF resp'.op = "cancel_order" /\ resp'.id = stockAtCreate.order
        THEN stockAtCreate
        ELSE NoSnapshot

shipmentVars == <<shipments, nextShipment, now>>

\* What the requests on orders, stock and payments leave alone; the
\* deletion of an order takes its shipment along.
cartVars == <<carts, cartItems, nextCart, nextCartItem>>
beyondOrders == <<txns, stockAtCreate, shipmentVars, cartVars>>
beyondDelete == <<txns, stockAtCreate, nextShipment, now, cartVars>>
beyondStock == <<txns, shipmentVars, cartVars>>
beyondStockDelete == <<txns, nextShipment, now, cartVars>>

Init ==
    /\ stock = [p \in Products |-> InitStock]
    /\ orders = <<>>
    /\ nextOrder = 1
    /\ payments = <<>>
    /\ shipments = <<>>
    /\ nextShipment = 1
    /\ now = 1
    /\ carts = <<>>
    /\ cartItems = <<>>
    /\ nextCart = 1
    /\ nextCartItem = 1
    /\ resp = Response("none", 0, "ok")
    /\ stockAtCreate = NoSnapshot
    /\ txns = <<>>

\* Orders and their stock, with the unconditional status setter.
NextOrders ==
    \/ \E order_data \in StockRequests :
          create_order(order_data) /\ UNCHANGED beyondOrders
    \/ \E o \in OrderIds, s \in OrderStatus :
          update_order_status(o, s) /\ UNCHANGED beyondOrders
    \/ \E o \in OrderIds : cancel_order(o) /\ UNCHANGED beyondOrders
    \/ \E o \in OrderIds : delete_order(o) /\ UNCHANGED beyondDelete

SpecOrders == Init /\ [][NextOrders]_vars

\* Every request that changes stock, with the history of creations.
NextStock ==
    \/ \E order_data \in StockRequests : create_order(order_data) /\ TrackStock /\ UNCHANGED beyondStock
    \/ \E o \in OrderIds : cancel_order(o) /\ TrackStock /\ UNCHANGED beyondStock
    \/ \E o \in OrderIds : delete_order(o) /\ TrackStock /\ UNCHANGED beyondStockDelete
    \/ \E p \in ProductIds, d \in StockChanges : update_stock(p, d) /\ TrackStock /\ UNCHANGED beyondStock

SpecStock == Init /\ [][NextStock]_vars

\* The life of an order: creation, the status setters, cancellation,
\* deletion and the payment flow.
Next ==
    \/ \E order_data \in PaidRequests :
          create_order(order_data) /\ UNCHANGED beyondOrders
    \/ \E o \in OrderIds, s \in OrderStatus :
          update_order_status(o, s) /\ UNCHANGED beyondOrders
    \/ \E o \in OrderIds, order_update \in StatusPatches :
          update_order(o, order_update) /\ UNCHANGED beyondOrders
    \/ \E o \in OrderIds : cancel_order(o) /\ UNCHANGED beyondOrders
    \/ \E o \in OrderIds : delete_order(o) /\ UNCHANGED beyondDelete
    \/ \E o \in OrderIds, outcome \in ProviderOutcomes :
          create_paypal_payment(o, outcome) /\ UNCHANGED beyondOrders
    \/ \E k \in ForeignPayments \cup PaymentIds, outcome \in ProviderOutcomes,
          sale \in BOOLEAN :
          execute_paypal_payment(k, outcome, sale) /\ UNCHANGED beyondOrders
    \/ \E o \in OrderIds, amount \in RefundAmounts, outcome \in ProviderOutcomes :
          refund_paypal_payment(o, amount, outcome) /\ UNCHANGED beyondOrders

Spec == Init /\ [][Next]_vars

\* Payments and their refunds.
NextRefund ==
    \/ \E order_data \in PaidRequests :
          create_order(order_data) /\ UNCHANGED beyondOrders
    \/ \E o \in OrderIds, order_update \in ReferencePatches :
          update_order(o, order_update) /\ UNCHANGED beyondOrders
    \/ \E o \in OrderIds, outcome \in ProviderOutcomes :
          create_paypal_payment(o, outcome) /\ UNCHANGED beyondOrders
    \/ \E k \in ForeignPayments \cup PaymentIds, outcome \in ProviderOutcomes,
          sale \in BOOLEAN :
          execute_paypal_payment(k, outcome, sale) /\ UNCHANGED beyondOrders
    \/ \E o \in OrderIds, amount \in RefundRequests, outcome \in ProviderOutcomes :
          refund_paypal_payment(o, amount, outcome) /\ UNCHANGED beyondOrders

SpecRefund == Init /\ [][NextRefund]_vars

\* Orders and the patches of their amounts.
NextTotals ==
    \/ \E order_data \in TotalRequests :
          create_order(order_data) /\ UNCHANGED beyondOrders
    \/ \E o \in OrderIds, order_update \in AmountPatches :
          update_order(o, order_update) /\ UNCHANGED beyondOrders

SpecTotals == Init /\ [][NextTotals]_vars

\* The lines that create_order writes.
NextLines ==
    \E order_data \in LineRequests :
        create_order(order_data) /\ UNCHANGED beyondOrders

SpecLines == Init /\ [][NextLines]_vars

\* What the requests on carts leave alone.
beyondCarts ==
    <<txns, stock, orders, nextOrder, payments, stockAtCreate, shipmentVars>>

\* The carts of the sessions and their lines.
NextCarts ==
    \/ \E session_id \in Sessions : create_cart(session_id) /\ UNCHANGED beyondCarts
    \/ \E c \in CartIds : delete_cart(c) /\ UNCHANGED beyondCarts
    \/ \E session_id \in Sessions, p \in CartProducts, q \in 1 .. MaxQty :
          add_item_to_cart(session_id, p, q) /\ UNCHANGED beyondCarts
    \/ \E i \in CartItemIds, q \in 1 .. MaxQty :
          update_cart_item(i, q) /\ UNCHANGED beyondCarts
    \/ \E i \in CartItemIds : remove_cart_item(i) /\ UNCHANGED beyondCarts
    \/ \E session_id \in Sessions : clear_cart(session_id) /\ UNCHANGED beyondCarts
    \/ \E c \in CartIds : convert_cart_to_order(c) /\ UNCHANGED beyondCarts

SpecCarts == Init /\ [][NextCarts]_vars

\* What the requests on shipments leave alone.
beyondShipments ==
    <<txns, stock, orders, nextOrder, payments, stockAtCreate, cartVars>>

\* Orders and their shipments: creation, shipping, cancellation, deletion.
NextShipments ==
    \/ \E order_data \in PaidRequests :
          create_order(order_data) /\ UNCHANGED beyondOrders
    \/ \E shipment_data \in ShipmentRequests :
          create_shipment(shipment_data) /\ UNCHANGED beyondShipments
    \/ \E o \in OrderIds, c \in Carriers, t \in TrackingNumbers :
          ship_order(o, c, t) /\ UNCHANGED beyondShipments
    \/ \E s \in ShipmentIds : cancel_shipment(s) /\ UNCHANGED beyondShipments
    \/ \E s \in ShipmentIds : delete_shipment(s) /\ UNCHANGED beyondShipments
    \/ Tick /\ UNCHANGED beyondShipments

SpecShipments == Init /\ [][NextShipments]_vars

\* The status pushes on shipments.
NextShipmentStatus ==
    \/ \E order_data \in PaidRequests :
          create_order(order_data) /\ UNCHANGED beyondOrders
    \/ \E shipment_data \in ShipmentRequests :
          create_shipment(shipment_data) /\ UNCHANGED beyondShipments
    \/ \E s \in ShipmentIds, status \in ShipmentStatus :
          update_shipment_status(s, status) /\ UNCHANGED beyondShipments
    \/ \E s \in ShipmentIds : deliver_shipment(s) /\ UNCHANGED beyondShipments
    \/ Tick /\ UNCHANGED beyondShipments

SpecShipmentStatus == Init /\ [][NextShipmentStatus]_vars

\* Status pushes, cancellation and deletion of shipments.
NextShipmentGuards ==
    \/ \E order_data \in PaidRequests :
          create_order(order_data) /\ UNCHANGED beyondOrders
    \/ \E shipment_data \in ShipmentRequests :
          create_shipment(shipment_data) /\ UNCHANGED beyondShipments
    \/ \E s \in ShipmentIds, status \in ShipmentStatus :
          update_shipment_status(s, status) /\ UNCHANGED beyondShipments
    \/ \E s \in ShipmentIds : cancel_shipment(s) /\ UNCHANGED beyondShipments
    \/ \E s \in ShipmentIds : delete_shipment(s) /\ UNCHANGED beyondShipments

SpecShipmentGuards == Init /\ [][NextShipmentGuards]_vars

\* Every request that writes the status of a shipment.
NextShipmentFlow ==
    \/ \E order_data \in PaidRequests :
          create_order(order_data) /\ UNCHANGED beyondOrders
    \/ \E shipment_data \in ShipmentRequests :
          create_shipment(shipment_data) /\ UNCHANGED beyondShipments
    \/ \E s \in ShipmentIds, status \in ShipmentStatus :
          update_shipment_status(s, status) /\ UNCHANGED beyondShipments
    \/ \E s \in ShipmentIds, shipment_update \in ShipmentStatusPatches :
          update_shipment(s, shipment_update) /\ UNCHANGED beyondShipments
    \/ \E o \in OrderIds, c \in Carriers, t \in TrackingNumbers :
          ship_order(o, c, t) /\ UNCHANGED beyondShipments
    \/ \E s \in ShipmentIds : deliver_shipment(s) /\ UNCHANGED beyondShipments
    \/ \E s \in ShipmentIds : cancel_shipment(s) /\ UNCHANGED beyondShipments

SpecShipmentFlow == Init /\ [][NextShipmentFlow]_vars

\* The payment flow with cancellation and deletion, without the status
\* setters and the patches.
NextPaymentFlow ==
    \/ \E order_data \in PaidRequests :
          create_order(order_data) /\ UNCHANGED beyondOrders
    \/ \E o \in OrderIds, outcome \in ProviderOutcomes :
          create_paypal_payment(o, outcome) /\ UNCHANGED beyondOrders
    \/ \E k \in ForeignPayments \cup PaymentIds, outcome \in ProviderOutcomes,
          sale \in BOOLEAN :
          execute_paypal_payment(k, outcome, sale) /\ UNCHANGED beyondOrders
    \/ \E o \in OrderIds, amount \in RefundAmounts, outcome \in ProviderOutcomes :
          refund_paypal_payment(o, amount, outcome) /\ UNCHANGED beyondOrders
    \/ \E o \in OrderIds : cancel_order(o) /\ UNCHANGED beyondOrders
    \/ \E o \in OrderIds : delete_order(o) /\ UNCHANGED beyondDelete

SpecPaymentFlow == Init /\ [][NextPaymentFlow]_vars

\* The payment flow with cancellation.
NextPaymentCancel ==
    \/ \E order_data \in PaidRequests :
          create_order(order_data) /\ UNCHANGED beyondOrders
    \/ \E o \in OrderIds, outcome \in ProviderOutcomes :
          create_paypal_payment(o, outcome) /\ UNCHANGED beyondOrders
    \/ \E k \in ForeignPayments \cup PaymentIds, outcome \in ProviderOutcomes,
          sale \in BOOLEAN :
          execute_paypal_payment(k, outcome, sale) /\ UNCHANGED beyondOrders
    \/ \E o \in OrderIds, amount \in RefundAmounts, outcome \in ProviderOutcomes :
          refund_paypal_payment(o, amount, outcome) /\ UNCHANGED beyondOrders
    \/ \E o \in OrderIds : cancel_order(o) /\ UNCHANGED beyondOrders

SpecPaymentCancel == Init /\ [][NextPaymentCancel]_vars

\* What the concurrent creations leave alone.
beyondConcurrent == <<stockAtCreate, shipmentVars, cartVars>>

\* Requests for one product, which fit the stock one at a time.
ConcurrentRequests ==
    {r \in StockRequests : Len(r.items) = 1 /\ r.items[1].product_id \in Products}

\* Two create_order requests at a time, and cancellation.
NextConcurrent ==
    \/ \E t \in TxnIds, order_data \in ConcurrentRequests :
          create_order_read(t, order_data) /\ UNCHANGED beyondConcurrent
    \/ \E t \in TxnIds : create_order_commit(t) /\ UNCHANGED beyondConcurrent
    \/ \E o \in OrderIds : cancel_order(o) /\ UNCHANGED beyondOrders

SpecConcurrent == Init /\ [][NextConcurrent]_vars

----------------------------------------------------------------------------
(* Claims *)

\* The quantity the order items hold of product p.
RECURSIVE QuantityOf(_, _)
QuantityOf(order_items, p) ==
    IF order_items = <<>> THEN 0
    ELSE (IF Head(order_items).product_id = p THEN Head(order_items).quantity ELSE 0)
         + QuantityOf(Tail(order_items), p)

Remaining(items, i) ==
    stock[items[i].product_id]
        - QuantityOf(SubSeq(items, 1, i - 1), items[i].product_id)

LineFits(items, i) ==
    /\ items[i].product_id \in Products
    /\ items[i].quantity <= Remaining(items, i)

\* Some line is reached and asks for more than the stock left for it.
Oversold(items) ==
    \E i \in 1 .. Len(items) :
        /\ \A j \in 1 .. i - 1 : LineFits(items, j)
        /\ items[i].product_id \in Products
        /\ items[i].quantity > Remaining(items, i)

\* C2 (no oversell, atomic failure): a creation that reaches a line asking
\* for more than the stock left by the earlier lines fails with
\* InsufficientStock, and a failed creation changes no stock and persists
\* no order.
C2_NoOversellAtomic ==
    [][\A order_data \in StockRequests :
          create_order(order_data) =>
             /\ Oversold(order_data.items) => resp'.result = "InsufficientStock"
             /\ resp'.result # "ok" =>
                   /\ stock' = stock
                   /\ orders' = orders
                   /\ nextOrder' = nextOrder]_vars

\* A creation failed on stock although every product had enough for any
\* single line: an earlier line of the same request had taken it.
C2_Witness ==
    /\ resp.op = "create_order"
    /\ resp.result = "InsufficientStock"
    /\ \A p \in Products : stock[p] >= MaxQty

\* C3 (stock is never negative): stock starts and stays >= 0 under
\* creation, cancellation, deletion and manual adjustment, and an
\* adjustment that would go below zero fails and leaves stock as it was.
C3_StockNonNegative ==
    /\ \A p \in Products : stock[p] >= 0
    /\ [][/\ \A p \in Products : stock'[p] >= 0
          /\ (resp'.op = "update_stock" /\ resp'.result # "ok") => stock' = stock
          /\ \A p \in Products, d \in StockChanges :
                (update_stock(p, d) /\ stock[p] + d < 0)
                   => resp'.result = "InsufficientStock"]_vars

\* An adjustment below zero was refused.
C3_Witness ==
    /\ resp.op = "update_stock"
    /\ resp.result = "InsufficientStock"
    /\ stock[resp.id] = 1

\* The sum of the stored line totals.
RECURSIVE SumLineTotals(_)
SumLineTotals(order_items) ==
    IF order_items = <<>> THEN 0
    ELSE Head(order_items).line_total + SumLineTotals(Tail(order_items))

\* C4 (order totals): every created order has, at the precision of its
\* columns, line_subtotal = quantity * unit_price and line_total =
\* line_subtotal - line_discount on every line, subtotal_amount = the sum
\* of the line totals, and total_amount = subtotal_amount +
\* shipping_amount - discount_amount.
C4_OrderTotals ==
    \A o \in DOMAIN orders :
        LET order == orders[o] IN
        /\ \A i \in 1 .. Len(order.order_items) :
              LET order_item == order.order_items[i] IN
              /\ order_item.line_subtotal =
                    NumericRound(order_item.quantity * order_item.unit_price)
              /\ order_item.line_total =
                    order_item.line_subtotal - order_item.line_discount
        /\ order.subtotal_amount = SumLineTotals(order.order_items)
        /\ order.total_amount =
              order.subtotal_amount + order.shipping_amount - order.discount_amount

\* C5 (cancel and the order's status): cancelling a FULFILLED or CANCELLED
\* order fails and changes neither orders nor stock; in every other status
\* it succeeds and the order becomes CANCELLED.
C5_CancelLegality ==
    [][\A o \in DOMAIN orders :
          (resp'.op = "cancel_order" /\ resp'.id = o) =>
             IF orders[o].status \in {"FULFILLED", "CANCELLED"}
             THEN /\ resp'.result = "InvalidState"
                  /\ orders' = orders
                  /\ stock' = stock
             ELSE /\ resp'.result = "ok"
                  /\ orders'[o].status = "CANCELLED"]_vars

\* The cancellation of a fulfilled order was refused.
C5_Witness ==
    /\ resp.op = "cancel_order"
    /\ resp.result = "InvalidState"
    /\ orders[resp.id].status = "FULFILLED"

\* C6 (delete only a draft): deleting a DRAFT order gives every product
\* the quantity its lines hold, which is what cancelling gives, and removes
\* the order with its items; in any other status it fails and changes
\* neither orders nor stock.
C6_DeleteRestriction ==
    [][\A o \in DOMAIN orders :
          /\ (resp'.op = "delete_order" /\ resp'.id = o) =>
                IF orders[o].status = "DRAFT"
                THEN /\ resp'.result = "ok"
                     /\ DOMAIN orders' = DOMAIN orders \ {o}
                     /\ \A x \in DOMAIN orders' : orders'[x] = orders[x]
                     /\ \A p \in Products :
                           stock'[p] = stock[p] + QuantityOf(orders[o].order_items, p)
                ELSE /\ resp'.result = "InvalidState"
                     /\ orders' = orders
                     /\ stock' = stock
          /\ (resp'.op = "cancel_order" /\ resp'.id = o /\ resp'.result = "ok") =>
                \A p \in Products :
                   stock'[p] = stock[p] + QuantityOf(orders[o].order_items, p)]_vars

\* A draft order was deleted and another order is still there.
C6_Witness ==
    /\ resp.op = "delete_order"
    /\ resp.result = "ok"
    /\ resp.id \notin DOMAIN orders
    /\ DOMAIN orders # {}


\* C7: the status of an order changes only along DRAFT -> PENDING_PAYMENT
\* -> PAID -> FULFILLED, or to CANCELLED from DRAFT, PENDING_PAYMENT or
\* PAID; FULFILLED and CANCELLED are never left.
LegalTransitions ==
    {<<"DRAFT", "PENDING_PAYMENT">>, <<"PENDING_PAYMENT", "PAID">>,
     <<"PAID", "FULFILLED">>, <<"DRAFT", "CANCELLED">>,
     <<"PENDING_PAYMENT", "CANCELLED">>, <<"PAID", "CANCELLED">>}

C7_StatusGraph ==
    [][\A o \in DOMAIN orders \cap DOMAIN orders' :
          orders'[o].status # orders[o].status
             => <<orders[o].status, orders'[o].status>> \in LegalTransitions]_vars

PaymentFields == {"status", "payment_status", "payment_provider", "payment_reference"}

SamePaymentFields(o) ==
    /\ o \in DOMAIN orders'
    /\ \A f \in PaymentFields : orders'[o][f] = orders[o][f]

\* C8: initiating a payment fails, leaving the orders alone and creating no
\* payment at the provider, when the order does not exist, when its status
\* is neither DRAFT nor PENDING_PAYMENT, or when its payment_status is
\* CAPTURED; when it succeeds the order has payment_provider PAYPAL, the
\* id of the payment just created as payment_reference, payment_status
\* PENDING and status PENDING_PAYMENT.
C8_InitiatePayment ==
    [][\A o \in {resp'.id}, outcome \in ProviderOutcomes :
          (resp'.op = "create_paypal_payment"
             /\ create_paypal_payment(o, outcome)) =>
            /\ (\/ o \notin DOMAIN orders
                \/ orders[o].status \notin {"DRAFT", "PENDING_PAYMENT"}
                \/ orders[o].payment_status = "CAPTURED")
                  => /\ resp'.result \in {"NotFound", "InvalidState", "AlreadyPaid"}
                     /\ orders' = orders
                     /\ payments' = payments
            /\ resp'.result = "ok"
                  => /\ Len(payments') = Len(payments) + 1
                     /\ payments'[Len(payments')] = [custom |-> o, state |-> "created"]
                     /\ o \in DOMAIN orders'
                     /\ orders'[o].payment_provider = "PAYPAL"
                     /\ orders'[o].payment_reference = PaymentRef(Len(payments'))
                     /\ orders'[o].payment_status = "PENDING"
                     /\ orders'[o].status = "PENDING_PAYMENT"]_vars

\* A second payment was initiated for an order whose first payment had been
\* executed.
C8_Witness ==
    /\ resp.op = "create_paypal_payment"
    /\ resp.result = "ok"
    /\ resp.id \in DOMAIN orders
    /\ orders[resp.id].payment_reference = PaymentRef(Len(payments))
    /\ Len(payments) = 2
    /\ payments[1] = [custom |-> resp.id, state |-> "executed"]

\* C9: when the provider call of create_paypal_payment,
\* execute_paypal_payment or refund_paypal_payment fails (error answer,
\* timeout, transport error) the operation answers with an error and status,
\* payment_status, payment_provider and payment_reference of every order are
\* what they were.  Stated in two halves: an answer other than success
\* comes with these fields untouched, and an answer of success is never the
\* answer to a call whose provider call failed.
PaymentOps ==
    {"create_paypal_payment", "execute_paypal_payment", "refund_paypal_payment"}

C9_ProviderFailure ==
    [][resp'.op \in PaymentOps =>
         IF resp'.result # "ok"
         THEN \A x \in DOMAIN orders : SamePaymentFields(x)
         ELSE /\ \A outcome \in ProviderOutcomes \ {"ok"} :
                    ~create_paypal_payment(resp'.id, outcome)
              /\ \A outcome \in ProviderOutcomes, sale \in BOOLEAN :
                    ~ExecutionResult(resp'.id, outcome, sale).success
                       => ~execute_paypal_payment(resp'.id, outcome, sale)
              /\ \A amount \in RefundAmounts,
                    outcome \in ProviderOutcomes \ {"ok"} :
                    ~refund_paypal_payment(resp'.id, amount, outcome)]_vars

\* The execution of a payment failed at the provider and its order still
\* waits for it.
C9_Witness ==
    /\ resp.op = "execute_paypal_payment"
    /\ resp.result = "ProviderError"
    /\ resp.id \in 1..Len(payments)
    /\ payments[resp.id].state = "created"
    /\ \E o \in DOMAIN orders :
          /\ payments[resp.id].custom = o
          /\ orders[o].status = "PENDING_PAYMENT"
          /\ orders[o].payment_status = "PENDING"
          /\ orders[o].payment_reference = PaymentRef(resp.id)

\* A successful execution whose token resolves to an existing order.
Resolved(k, outcome, sale) ==
    LET execution_result == ExecutionResult(k, outcome, sale)
    IN  /\ execution_result.success
        /\ IsOrderToken(execution_result.order_id)
        /\ execution_result.order_id \in DOMAIN orders

OthersUntouched(o) ==
    /\ DOMAIN orders' = DOMAIN orders
    /\ \A x \in DOMAIN orders \ {o} : orders'[x] = orders[x]

\* C10 as stated: after a successful execution whose token resolves to an
\* existing order, that order has payment_status CAPTURED, status PAID and
\* the provider's transaction id as payment_reference, and no other order
\* is modified.
C10_CompletePaymentStated ==
    [][(resp'.op = "execute_paypal_payment" /\ resp'.result = "ok") =>
         \A outcome \in ProviderOutcomes, sale \in BOOLEAN :
            (execute_paypal_payment(resp'.id, outcome, sale)
               /\ Resolved(resp'.id, outcome, sale)) =>
              LET execution_result == ExecutionResult(resp'.id, outcome, sale)
                  o == execution_result.order_id
              IN  /\ orders'[o].payment_status = "CAPTURED"
                  /\ orders'[o].status = "PAID"
                  /\ orders'[o].payment_reference = execution_result.transaction_id
                  /\ OthersUntouched(o)]_vars

\* C10: after a successful execution whose token resolves to an existing
\* order, that order has payment_status CAPTURED and status PAID; its
\* payment_reference is the provider's transaction id when the executed
\* payment carries one and the provider's payment id otherwise; no other
\* order is modified.
C10_CompletePayment ==
    [][(resp'.op = "execute_paypal_payment" /\ resp'.result = "ok") =>
         \A outcome \in ProviderOutcomes, sale \in BOOLEAN :
            (execute_paypal_payment(resp'.id, outcome, sale)
               /\ Resolved(resp'.id, outcome, sale)) =>
              LET o == ExecutionResult(resp'.id, outcome, sale).order_id
              IN  /\ orders'[o].payment_status = "CAPTURED"
                  /\ orders'[o].status = "PAID"
                  /\ orders'[o].payment_reference =
                        IF sale THEN SaleRef(resp'.id) ELSE PaymentRef(resp'.id)
                  /\ OthersUntouched(o)]_vars

\* A payment was executed that carried no sale: the order is paid and keeps
\* the payment id, while another order exists.
C10_Witness ==
    /\ resp.op = "execute_paypal_payment"
    /\ resp.result = "ok"
    /\ resp.id \in 1..Len(payments)
    /\ payments[resp.id].state = "executed"
    /\ payments[resp.id].custom \in DOMAIN orders
    /\ orders[payments[resp.id].custom].status = "PAID"
    /\ orders[payments[resp.id].custom].payment_status = "CAPTURED"
    /\ orders[payments[resp.id].custom].payment_reference = PaymentRef(resp.id)
    /\ DOMAIN orders # {payments[resp.id].custom}

\* C11: after a successful refund of an order with total_amount T,
\* payment_status is REFUNDED when the amount was omitted or equals T and
\* stays CAPTURED for every requested amount a >= 0 strictly less than T.
C11_RefundOutcome ==
    [][(resp'.op = "refund_paypal_payment" /\ resp'.result = "ok") =>
         \A amount \in RefundRequests :
            refund_paypal_payment(resp'.id, amount, "ok") =>
              LET T == orders[resp'.id].total_amount
              IN  /\ (amount = <<>> \/ amount[1] = T)
                        => orders'[resp'.id].payment_status = "REFUNDED"
                  /\ (amount # <<>> /\ amount[1] < T)
                        => orders'[resp'.id].payment_status = "CAPTURED"]_vars

\* C12: a refund fails, with no call of the provider and no change of any
\* order, unless the order exists, its payment_provider is PAYPAL, its
\* payment_status is CAPTURED and its payment_reference is not empty; an
\* order whose payment_status is REFUNDED is never refunded again.  The
\* answers "ok" and "ProviderError" are those that follow a provider call.
C12_RefundPreconditions ==
    [][resp'.op = "refund_paypal_payment" =>
         LET o == resp'.id
         IN  /\ (\/ o \notin DOMAIN orders
                 \/ orders[o].payment_provider # "PAYPAL"
                 \/ orders[o].payment_status # "CAPTURED"
                 \/ orders[o].payment_reference = NoReference)
                   => /\ resp'.result \in
                            {"NotFound", "NotPayPal", "NotCaptured", "NoReference"}
                      /\ orders' = orders
                      /\ payments' = payments
             /\ (o \in DOMAIN orders /\ orders[o].payment_status = "REFUNDED")
                   => /\ resp'.result = "NotCaptured"
                      /\ orders' = orders]_vars

\* A refund was asked for an order that had been refunded, and refused.
C12_Witness ==
    /\ resp.op = "refund_paypal_payment"
    /\ resp.result = "NotCaptured"
    /\ resp.id \in DOMAIN orders
    /\ orders[resp.id].payment_status = "REFUNDED"
    /\ orders[resp.id].payment_provider = "PAYPAL"
    /\ orders[resp.id].payment_reference # NoReference

\* C13: every order has at most one shipment; create_shipment for an order
\* that has a shipment, or for an order that does not exist, fails and
\* creates nothing.
AtMostOneShipment ==
    \A o \in OrderIds : Cardinality(get_shipment_by_order(o)) <= 1

C13_ShipmentUniqueness ==
    /\ AtMostOneShipment
    /\ [][/\ AtMostOneShipment'
          /\ resp'.op = "create_shipment" =>
                /\ get_shipment_by_order(resp'.id) # {}
                      => /\ resp'.result = "DuplicateShipment"
                         /\ shipments' = shipments
                /\ resp'.id \notin DOMAIN orders
                      => /\ resp'.result = "OrderNotFound"
                         /\ shipments' = shipments]_vars

\* A second shipment was asked for an order that has one, and refused.
C13_Witness ==
    /\ resp.op = "create_shipment"
    /\ resp.result = "DuplicateShipment"
    /\ Cardinality(get_shipment_by_order(resp.id)) = 1
    /\ Cardinality(DOMAIN shipments) = 2

\* C14: a push of SHIPPED sets shipped_at only if it is not set, a push of
\* DELIVERED (or deliver) sets delivered_at only if it is not set, and no
\* push changes a timestamp that is set: over the status pushes a timestamp
\* keeps its first value.
C14_SetOnceTimestamps ==
    [][\A s \in DOMAIN shipments :
          /\ s \in DOMAIN shipments'
          /\ shipments[s].shipped_at # NoTime
                => shipments'[s].shipped_at = shipments[s].shipped_at
          /\ shipments[s].delivered_at # NoTime
                => shipments'[s].delivered_at = shipments[s].delivered_at
          /\ (/\ resp'.op \in {"update_shipment_status", "deliver_shipment"}
              /\ resp'.result = "ok" /\ resp'.id = s) =>
                /\ shipments'[s].shipped_at =
                      IF shipments[s].shipped_at = NoTime
                         /\ shipments'[s].status = "SHIPPED"
                      THEN now ELSE shipments[s].shipped_at
                /\ shipments'[s].delivered_at =
                      IF shipments[s].delivered_at = NoTime
                         /\ shipments'[s].status = "DELIVERED"
                      THEN now ELSE shipments[s].delivered_at]_vars

\* SHIPPED was pushed again, later than the first time, and shipped_at is
\* still the time of the first push.
C14_Witness ==
    /\ resp.op = "update_shipment_status"
    /\ resp.result = "ok"
    /\ resp.id \in DOMAIN shipments
    /\ shipments[resp.id].status = "SHIPPED"
    /\ shipments[resp.id].shipped_at # NoTime
    /\ shipments[resp.id].shipped_at < now
    /\ shipments[resp.id].delivered_at # NoTime

\* C15: each session key has at most one cart with status ACTIVE, and the
\* lookup-or-create of add_item_to_cart creates no cart for a session that
\* has an ACTIVE one.
C15_SingleActiveCart ==
    \A session_id \in Sessions : Cardinality(get_cart_by_session(session_id)) <= 1

\* C16: a cart holds at most one line per product; adding a product the cart
\* already holds adds the quantity to that line if the combined quantity
\* does not exceed the product's stock, and otherwise fails with
\* InsufficientStock and leaves the line as it was.
OneLinePerProduct ==
    \A i, j \in DOMAIN cartItems :
        (/\ cartItems[i].cart_id = cartItems[j].cart_id
         /\ cartItems[i].product_id = cartItems[j].product_id) => i = j

C16_AddItemMerges ==
    /\ OneLinePerProduct
    /\ [][/\ OneLinePerProduct'
          /\ resp'.op = "add_item_to_cart" =>
               \A p \in Products, q \in 1 .. MaxQty, i \in DOMAIN cartItems :
                  (/\ add_item_to_cart(resp'.id, p, q)
                   /\ get_cart_by_session(resp'.id) = {cartItems[i].cart_id}
                   /\ cartItems[i].product_id = p) =>
                     IF cartItems[i].quantity + q <= stock[p]
                     THEN /\ resp'.result = "ok"
                          /\ cartItems' =
                                [cartItems EXCEPT ![i].quantity = @ + q]
                     ELSE /\ resp'.result = "InsufficientStock"
                          /\ cartItems' = cartItems]_vars

\* A product was added to a cart that holds it, the combined quantity was
\* more than the stock, and the line is as it was.
C16_Witness ==
    /\ resp.op = "add_item_to_cart"
    /\ resp.result = "InsufficientStock"
    /\ \E i \in DOMAIN cartItems :
          /\ get_cart_by_session(resp.id) = {cartItems[i].cart_id}
          /\ cartItems[i].quantity = 2
          /\ stock[cartItems[i].product_id] = 2
    /\ Cardinality(DOMAIN cartItems) = 2

\* C17: when add_item_to_cart fails with ProductNotFound, ProductInactive
\* or InsufficientStock, the carts and the cart items are what they were
\* before the call.
C17_FailedAddLeavesNoTrace ==
    [][(/\ resp'.op = "add_item_to_cart"
        /\ resp'.result \in {"ProductNotFound", "ProductInactive", "InsufficientStock"})
          => /\ carts' = carts
             /\ cartItems' = cartItems]_vars

\* C18: after any sequence of create_order and update_order every order has
\* total_amount = subtotal_amount + shipping_amount - discount_amount, and
\* update_order never changes subtotal_amount.
C18_TotalUnderUpdates ==
    [][\A o \in DOMAIN orders' :
          /\ orders'[o].total_amount =
                orders'[o].subtotal_amount + orders'[o].shipping_amount
                   - orders'[o].discount_amount
          /\ (resp'.op = "update_order" /\ o \in DOMAIN orders)
                => orders'[o].subtotal_amount = orders[o].subtotal_amount]_vars

\* C19: every order item that create_order persists has quantity > 0 and
\* line_total >= 0.
C19_OrderLineInvariant ==
    \A o \in DOMAIN orders :
        \A i \in 1 .. Len(orders[o].order_items) :
            /\ orders[o].order_items[i].quantity > 0
            /\ orders[o].order_items[i].line_total >= 0

\* C20: the unit_price of every order item that create_order persists is
\* the price_per_unit of its product.
C20_UnitPriceIsProductPrice ==
    \A o \in DOMAIN orders :
        \A i \in 1 .. Len(orders[o].order_items) :
            orders[o].order_items[i].unit_price
               = price_per_unit[orders[o].order_items[i].product_id]

\* C21: cancel_shipment fails when the status is DELIVERED and otherwise
\* sets the status to CANCELLED and leaves shipped_at and delivered_at;
\* delete_shipment fails when the status is SHIPPED or DELIVERED and
\* otherwise removes the shipment; a failed call changes no shipment.
C21_ShipmentGuards ==
    [][LET s == resp'.id IN
       /\ resp'.op = "cancel_shipment" =>
             IF s \notin DOMAIN shipments
             THEN resp'.result = "NotFound" /\ shipments' = shipments
             ELSE IF shipments[s].status = "DELIVERED"
             THEN resp'.result = "InvalidState" /\ shipments' = shipments
             ELSE /\ resp'.result = "ok"
                  /\ shipments' = [shipments EXCEPT ![s].status = "CANCELLED"]
       /\ resp'.op = "delete_shipment" =>
             IF s \notin DOMAIN shipments
             THEN resp'.result = "NotFound" /\ shipments' = shipments
             ELSE IF shipments[s].status \in {"SHIPPED", "DELIVERED"}
             THEN resp'.result = "InvalidState" /\ shipments' = shipments
             ELSE /\ resp'.result = "ok"
                  /\ DOMAIN shipments' = DOMAIN shipments \ {s}
                  /\ \A x \in DOMAIN shipments' : shipments'[x] = shipments[x]]_vars

\* The cancellation of a delivered shipment was refused while another
\* shipment, shipped before, stands cancelled with its shipped_at.
C21_Witness ==
    /\ resp.op = "cancel_shipment"
    /\ resp.result = "InvalidState"
    /\ resp.id \in DOMAIN shipments
    /\ shipments[resp.id].status = "DELIVERED"
    /\ \E x \in DOMAIN shipments :
          /\ shipments[x].status = "CANCELLED"
          /\ shipments[x].shipped_at # NoTime

\* C22: convert_cart_to_order sets the status of the cart to CONVERTED and
\* changes nothing else: the cart stays, its items are what they were, no
\* order is created and no stock changes.  An add_item_to_cart of a session
\* that is left without ACTIVE cart works on a cart it creates, and no
\* add_item_to_cart touches the items of a converted cart.
C22_CartConversion ==
    [][/\ (resp'.op = "convert_cart_to_order" /\ resp'.result = "ok") =>
             /\ resp'.id \in DOMAIN carts
             /\ carts' = [carts EXCEPT ![resp'.id].status = "CONVERTED"]
             /\ cartItems' = cartItems
             /\ orders' = orders
             /\ nextOrder' = nextOrder
             /\ stock' = stock
       /\ resp'.op = "add_item_to_cart" =>
             /\ \A i \in DOMAIN cartItems :
                   carts[cartItems[i].cart_id].status = "CONVERTED"
                      => /\ i \in DOMAIN cartItems'
                         /\ cartItems'[i] = cartItems[i]
             /\ (get_cart_by_session(resp'.id) = {} /\ resp'.result = "ok") =>
                   /\ DOMAIN carts' = DOMAIN carts \cup {nextCart}
                   /\ nextCart \notin DOMAIN carts
                   /\ carts'[nextCart] = NewCart(resp'.id)
                   /\ \A c \in DOMAIN carts : carts'[c] = carts[c]
                   /\ \E i \in DOMAIN cartItems' \ DOMAIN cartItems :
                         cartItems'[i].cart_id = nextCart]_vars

\* After the conversion of its cart a session added an item: the item is
\* in a new ACTIVE cart and the converted cart has its items.
C22_Witness ==
    /\ resp.op = "add_item_to_cart"
    /\ resp.result = "ok"
    /\ \E c, d \in DOMAIN carts :
          /\ carts[c] = [session_id |-> resp.id, status |-> "CONVERTED"]
          /\ carts[d] = [session_id |-> resp.id, status |-> "ACTIVE"]
          /\ c < d
          /\ cart_items(c) # {}
          /\ cart_items(d) # {}

\* C23: whenever the status of an order changes to CANCELLED from DRAFT,
\* PENDING_PAYMENT or PAID, by whatever request, the same step gives every
\* line's quantity back to the stock of its product.
C23_CancellationRestores ==
    [][\A o \in DOMAIN orders \cap DOMAIN orders' :
          (/\ orders[o].status \in {"DRAFT", "PENDING_PAYMENT", "PAID"}
           /\ orders'[o].status = "CANCELLED")
             => stock' = RestoreStock(orders[o].order_items, 1, stock)]_vars


\* The quantity of product p that the orders not cancelled hold.
RECURSIVE HeldBy(_, _)
HeldBy(os, p) ==
    IF os = {} THEN 0
    ELSE LET o == CHOOSE x \in os : TRUE IN
         (IF orders[o].status = "CANCELLED" THEN 0
          ELSE QuantityOf(orders[o].order_items, p))
         + HeldBy(os \ {o}, p)

\* C24 (no oversell under concurrency): with two create_order requests
\* running at a time, their reads, checks and writes interleaved, in every
\* reachable state the decrease of a product's stock is the total quantity
\* that its committed orders not cancelled hold, so two requests that fit
\* the stock one by one but not together do not both commit.
C24_NoOversellConcurrent ==
    \A p \in Products : InitStock - stock[p] = HeldBy(DOMAIN orders, p)


\* C25 (ship_order): for an existing order, ship_order creates a shipment
\* when the order has none and otherwise updates the existing one with the
\* carrier and the tracking number; either way the order then has exactly
\* one shipment, SHIPPED and with shipped_at set, and the order's status
\* and the stock are as before.
C25_ShipOrder ==
    [][resp'.op = "ship_order" =>
        \A o \in DOMAIN orders, c \in Carriers, t \in TrackingNumbers :
            ship_order(o, c, t) =>
                LET before == get_shipment_by_order(o)
                    after == {s \in DOMAIN shipments' : shipments'[s].order_id = o}
                IN  /\ resp'.result = "ok"
                    /\ Cardinality(after) = 1
                    /\ \A s \in after :
                          /\ shipments'[s].status = "SHIPPED"
                          /\ shipments'[s].shipped_at # NoTime
                          /\ shipments'[s].carrier_name = c
                          /\ shipments'[s].tracking_number = t
                    /\ IF before = {}
                       THEN DOMAIN shipments' = DOMAIN shipments \cup {nextShipment}
                       ELSE after = before /\ DOMAIN shipments' = DOMAIN shipments
                    /\ \A s \in DOMAIN shipments \ before :
                          shipments'[s] = shipments[s]
                    /\ orders' = orders
                    /\ stock' = stock]_vars

\* ship_order has acted on the second order, whose shipment is SHIPPED
\* with the second tracking number.
C25_Witness ==
    /\ resp = Response("ship_order", 2, "ok")
    /\ \E s \in DOMAIN shipments :
          /\ shipments[s].order_id = 2
          /\ shipments[s].status = "SHIPPED"
          /\ shipments[s].shipped_at # NoTime
          /\ shipments[s].tracking_number = "t2"
    /\ orders[2].status = "DRAFT"


\* The place of a status on the line PENDING, PACKED, SHIPPED, DELIVERED.
Progress(status) ==
    CASE status = "PENDING" -> 1
      [] status = "PACKED" -> 2
      [] status = "SHIPPED" -> 3
      [] status = "DELIVERED" -> 4
      [] OTHER -> 0

\* A change of status that the progression allows.
Forward(from, to) ==
    \/ /\ to = "CANCELLED"
       /\ from # "DELIVERED"
    \/ /\ from # "CANCELLED"
       /\ to # "CANCELLED"
       /\ Progress(from) < Progress(to)

\* C26 (shipment status progression): over update_shipment_status,
\* update_shipment, ship_order, deliver_shipment and cancel_shipment, the
\* status of a shipment changes only forward along PENDING, PACKED, SHIPPED,
\* DELIVERED, or to CANCELLED from a status other than DELIVERED; a
\* DELIVERED shipment keeps its status.
C26_StatusProgression ==
    [][\A s \in DOMAIN shipments \cap DOMAIN shipments' :
          shipments'[s].status # shipments[s].status
             => Forward(shipments[s].status, shipments'[s].status)]_vars


\* C27 (set-once timestamps across ship_order): when the shipment of an
\* order has shipped_at set, a later ship_order for that order leaves
\* shipped_at at the value recorded first.
C27_ShippedAtKept ==
    [][resp'.op = "ship_order" =>
        \A s \in DOMAIN shipments \cap DOMAIN shipments' :
            (/\ shipments[s].order_id = resp'.id
             /\ shipments[s].shipped_at # NoTime)
               => shipments'[s].shipped_at = shipments[s].shipped_at]_vars


\* C28 (stock restored at most once per order): over create_order, the
\* payment flow, cancel_order and delete_order, the stock of a product
\* never exceeds its initial value.
C28_StockWithinInitial ==
    \A p \in Products : stock[p] <= InitStock

\* C29 (payment flow and the order's state graph): over create_order, the
\* payment flow and cancel_order, execute_paypal_payment makes an order
\* PAID only from PENDING_PAYMENT; a CANCELLED order stays CANCELLED when
\* a payment created before the cancellation is executed.
C29_PaidFromPendingPayment ==
    [][resp'.op = "execute_paypal_payment" =>
        \A o \in DOMAIN orders \cap DOMAIN orders' :
            /\ (orders'[o].status = "PAID" /\ orders[o].status # "PAID")
                  => orders[o].status = "PENDING_PAYMENT"
            /\ orders[o].status = "CANCELLED"
                  => orders'[o].status = "CANCELLED"]_vars

\* C30 (status and payment status): over create_order, the payment flow,
\* cancel_order and delete_order, a PAID order has payment status CAPTURED
\* or REFUNDED and a PENDING_PAYMENT order has payment status PENDING.
C30_StatusPaymentStatus ==
    \A o \in DOMAIN orders :
        /\ orders[o].status = "PAID"
              => orders[o].payment_status \in {"CAPTURED", "REFUNDED"}
        /\ orders[o].status = "PENDING_PAYMENT"
              => orders[o].payment_status = "PENDING"

\* One order is PAID and refunded in full while the other waits for its
\* payment.
C30_Witness ==
    /\ DOMAIN orders = {1, 2}
    /\ \E o \in {1, 2} :
          /\ orders[o].status = "PAID"
          /\ orders[o].payment_status = "REFUNDED"
          /\ orders[3 - o].status = "PENDING_PAYMENT"
          /\ orders[3 - o].payment_status = "PENDING"

====
